---- MODULE Spec2Model ----
(***************************************************************************)
(* A model of src/accordion.ts: the Accordion class of y14e/accordion-js.   *)
(*                                                                         *)
(* One instance is modelled, built over a document that holds the          *)
(* instance's member triggers (indexes 0..NumTriggers-1 of                 *)
(* triggerElements) and one further trigger-like element, Foreign, that    *)
(* belongs to another accordion of the same document.  Each element e has  *)
(* its own section and content; the state of element e's trigger, content  *)
(* and section is kept at index e of the DOM variables.                    *)
(*                                                                         *)
(* The host environment is modelled by its contract only:                  *)
(*   - requestAnimationFrame: callbacks are queued in scheduling order and *)
(*     the next frame runs all of them, in that order (action Paint);      *)
(*   - Element.animate: returns a running animation that reports one       *)
(*     finish event (action Finish) unless cancel() was called on it.      *)
(***************************************************************************)
EXTENDS Integers, Sequences, FiniteSets, TLC

(***************************************************************************)
(* Bounds of the model.                                                    *)
(***************************************************************************)
NumTriggers == 3
MaxPending == 2

(***************************************************************************)
(* Program constants.                                                      *)
(***************************************************************************)
DefaultDuration == 300

(***************************************************************************)
(* The document.                                                           *)
(***************************************************************************)
Members == 0 .. (NumTriggers - 1)
Foreign == NumTriggers
Elems == Members \cup {Foreign}
NoElem == 0 - 1
Slots == (0 - 1) .. (NumTriggers - 1)

\* Values of document.activeElement besides the member triggers: an HTML
\* element that is no member trigger (document.body when nothing is
\* focused), and an active element that is no HTMLElement.
Other == NumTriggers + 1
NonHTML == NumTriggers + 2

\* The data-accordion-name attribute of each element: the last member has
\* none, every other element of the document carries the group key "g1".
DataAccordionName(e) == IF e = NumTriggers - 1 THEN "" ELSE "g1"

\* The pages the instance is constructed on:
\* <<members with aria-disabled="true", members with the disabled attribute,
\*   the reduced-motion preference, options.animation.duration,
\*   members whose trigger and content carry an id of the author's>>.
Scenarios ==
    { <<{}, {}, FALSE, DefaultDuration, {}>>,
      <<{0}, {1}, TRUE, 500, Members>>,
      <<{0}, Members \ {0}, FALSE, 500, {0}>> }

\* The element collections the constructor queries.
Collections == {"section", "header", "trigger", "content"}

\* The data-accordion-expanded-label / data-accordion-collapsed-label a
\* trigger declares ("" for none): member 0 declares distinct ones.
ExpandedLabel(e) == IF e = 0 THEN "Hide" ELSE ""
CollapsedLabel(e) == IF e = 0 THEN "Show" ELSE ""

Keys == {"Enter", " ", "End", "Home", "ArrowUp", "ArrowDown", "Tab"}
NavKeys == {"End", "Home", "ArrowUp", "ArrowDown"}

VARIABLES
    ariaExpanded,   \* Elems -> "true" | "false": trigger.ariaExpanded
    hidden,         \* Elems -> BOOLEAN: content carries the hidden attribute
    overflow,       \* Elems -> BOOLEAN: section.style has overflow: clip
    animations,     \* Slots -> animation object | Null: this.animations
    detached,       \* running animation objects no slot of this.animations holds
    raf,            \* pending requestAnimationFrame callbacks, oldest first
    focus,          \* document.activeElement
    ariaDisabled,   \* members with aria-disabled="true"
    nativeDisabled, \* members with the disabled attribute
    duration,       \* this.settings.animation.duration
    reducedMotion,  \* matchMedia('(prefers-reduced-motion: reduce)').matches
    attrs,          \* what toggle never writes: ids, aria-controls,
                    \* aria-labelledby, tabindex, pointer-events, role,
                    \* listeners, the root marker, aria-label, and which of the
                    \* instance's element collections came out empty
    error,          \* the last handler ended by throwing
    cancelled,      \* the last handler called cancel() on a running animation
    lastOp          \* the last step taken: [op, arg, key]

domVars == <<ariaExpanded, hidden, overflow, animations, detached, raf>>
cfgVars == <<ariaDisabled, nativeDisabled, duration, reducedMotion, attrs>>
vars == <<ariaExpanded, hidden, overflow, animations, detached, raf, focus,
          ariaDisabled, nativeDisabled, duration, reducedMotion, attrs, error,
          cancelled, lastOp>>

(***************************************************************************)
(* Values.                                                                 *)
(***************************************************************************)
Null == [trigger |-> NoElem, open |-> FALSE, duration |-> 0 - 1, state |-> "idle"]

\* String(open) / open.toString()
BoolString(b) == IF b THEN "true" ELSE "false"

\* this.triggerElements.indexOf(e)
IndexOf(e) == IF e \in Members THEN e ELSE 0 - 1

\* this.triggerElements.includes(e), without the membership test
IncludesAny(e) == TRUE

\* this.triggerElements.includes(e)
Includes(e) == e \in Members

\* JavaScript's remainder a % b for b > 0 (the sign follows the dividend).
JSRem(a, b) == IF a >= 0 THEN a % b ELSE 0 - ((0 - a) % b)

Op(o, a, k) == [op |-> o, arg |-> a, key |-> k]

\* The part of the state a handler reads and writes, as one record, at the
\* handler's entry.
State ==
    [ariaExpanded |-> ariaExpanded, hidden |-> hidden, overflow |-> overflow,
     animations |-> animations, detached |-> detached, raf |-> raf,
     cancelled |-> FALSE]

\* window.requestAnimationFrame(cb): cb joins the frame's callback list.
RequestAnimationFrame(q, cb) == Append(q, cb)

\* section.animate(keyframes, {duration, easing}): a new, running animation.
\* The object remembers what its finish listener closes over.
Animate(e, open, d) ==
    [trigger |-> e, open |-> open, duration |-> d, state |-> "running"]

\* animation.cancel() left out: the animation keeps running.
CancelNothing(a) == a

\* animation.cancel(): the animation goes idle and reports no finish event.
Cancel(a) == [a EXCEPT !.state = "idle"]

\* content.removeAttribute('hidden') left out.
KeepHidden(h, e) == h

\* content.removeAttribute('hidden')
RemoveHidden(h, e) == [h EXCEPT ![e] = FALSE]

\* The query with the group key left out of the selector.
QuerySelectorAnyName(st, n) ==
    LET found == {e \in Elems : st.ariaExpanded[e] = "true"}
    IN  IF found = {} THEN NoElem
        ELSE CHOOSE e \in found : \A f \in found : e <= f

\* document.querySelector('[aria-expanded="true"][data-accordion-name="n"]'):
\* the first matching element in document order, or none.
QuerySelector(st, n) ==
    LET found == {e \in Elems :
                     st.ariaExpanded[e] = "true" /\ DataAccordionName(e) = n}
    IN  IF found = {} THEN NoElem
        ELSE CHOOSE e \in found : \A f \in found : e <= f

\* The duration passed to animate(), with the match flag ignored.
AnimationDurationNoMatch(match, d) == d

\* The duration a toggle passes to animate().
AnimationDuration(match, d) == IF ~match THEN d ELSE 0

\* The guard with no request ever taken for a no-op.
NoOpGuardNever(st, trigger, open) == FALSE

\* The guard comparing the request with the target of the flip still
\* pending for the trigger, when there is one.
NoOpGuardInFlight(st, trigger, open) ==
    LET mine == SelectSeq(st.raf, LAMBDA cb : cb.trigger = trigger)
    IN  IF mine = <<>> THEN BoolString(open) = st.ariaExpanded[trigger]
        ELSE open = mine[Len(mine)].open

\* The no-op guard of toggle: open.toString() === trigger.ariaExpanded
NoOpGuard(st, trigger, open) == BoolString(open) = st.ariaExpanded[trigger]

\* document.getElementById(id): the first content of the document with
\* that id.
GetElementById(id) ==
    LET found == {c \in Members : attrs.contentId[c] = id}
    IN  IF found = {} THEN NoElem
        ELSE CHOOSE c \in found : \A d \in found : c <= d

\* document.getElementById(trigger.getAttribute('aria-controls')): the
\* content a transition of the trigger works on.  A trigger of another
\* instance carries the id of its own content.
ContentOf(trigger) ==
    IF trigger \in Members THEN GetElementById(attrs.ariaControls[trigger])
    ELSE trigger

RECURSIVE Toggle(_, _, _, _, _)
RECURSIVE CloseSt(_, _, _)

\* close(trigger)
CloseSt(st, d, trigger) ==
    IF ~Includes(trigger) THEN st ELSE Toggle(st, d, trigger, FALSE, FALSE)

\* toggle(trigger, open, match), as a function of the state st and of
\* settings.animation.duration d.
Toggle(st, d, trigger, open, match) ==
    IF NoOpGuard(st, trigger, open) THEN st
    ELSE
      LET name == DataAccordionName(trigger)
          current == QuerySelector(st, name)
          s1 == IF name # "" /\ open /\ current # NoElem /\ current # trigger
                THEN CloseSt(st, d, current)
                ELSE st
          q == RequestAnimationFrame(s1.raf, [trigger |-> trigger, open |-> open])
          index == IndexOf(trigger)
          old == s1.animations[index]
          after == IF old # Null THEN Cancel(old) ELSE old
          content == ContentOf(trigger)
          left == IF after.state = "running"
                  THEN s1.detached \cup {after}
                  ELSE s1.detached
          new == Animate(trigger, open, AnimationDuration(match, d))
      IN  [ariaExpanded |-> s1.ariaExpanded,
           hidden |-> RemoveHidden(s1.hidden, content),
           overflow |-> [s1.overflow EXCEPT ![trigger] = TRUE],
           animations |-> [s1.animations EXCEPT ![index] = new],
           detached |-> left,
           raf |-> q,
           cancelled |-> s1.cancelled \/ old.state = "running"]

\* open(trigger)
OpenSt(st, d, trigger) ==
    IF ~Includes(trigger) THEN st ELSE Toggle(st, d, trigger, TRUE, FALSE)

\* handleTriggerClick(event), event.currentTarget = trigger
HandleTriggerClick(st, d, trigger) ==
    Toggle(st, d, trigger, st.ariaExpanded[trigger] = "false", FALSE)

\* document.querySelector('[aria-controls="<id of content c>"]'): the first
\* trigger of the document that carries the content's id.
ControllerOf(c) ==
    LET found == {t \in Members : attrs.ariaControls[t] = attrs.contentId[c]}
    IN  IF found = {} THEN NoElem
        ELSE CHOOSE t \in found : \A u \in found : t <= u

\* handleContentBeforeMatch(event), event.currentTarget = content c
HandleContentBeforeMatch(st, d, c) ==
    LET trigger == ControllerOf(c)
    IN  IF st.ariaExpanded[trigger] = "true" THEN st
        ELSE Toggle(st, d, trigger, TRUE, TRUE)

\* The finish listener removing the style overrides after a close only.
FinishListenerClosedOnly(st, a) ==
    [st EXCEPT !.animations[IndexOf(a.trigger)] = Null,
               !.hidden[ContentOf(a.trigger)] = IF ~a.open THEN TRUE ELSE @,
               !.overflow[a.trigger] = IF ~a.open THEN FALSE ELSE @]

\* The finish listener hiding the content whatever the transition was.
FinishListenerAlwaysHides(st, a) ==
    [st EXCEPT !.animations[IndexOf(a.trigger)] = Null,
               !.hidden[ContentOf(a.trigger)] = TRUE,
               !.overflow[a.trigger] = FALSE]

\* The finish listener toggle registers on animation a.
FinishListener(st, a) ==
    [st EXCEPT !.animations[IndexOf(a.trigger)] = Null,
               !.hidden[ContentOf(a.trigger)] = IF ~a.open THEN TRUE ELSE @,
               !.overflow[a.trigger] = FALSE]

\* The frame's callbacks, run in scheduling order.
RECURSIVE RunCallbacks(_, _)
RunCallbacks(expanded, q) ==
    IF q = <<>> THEN expanded
    ELSE RunCallbacks([expanded EXCEPT ![Head(q).trigger] = BoolString(Head(q).open)],
                      Tail(q))

(***************************************************************************)
(* Keyboard navigation.                                                    *)
(***************************************************************************)
TriggerElements == [i \in 1 .. NumTriggers |-> i - 1]

\* isFocusable(element), with the test of the disabled attribute left out
IsFocusableAriaOnly(e) == ~(e \in ariaDisabled)

\* isFocusable(element)
IsFocusable(e) == ~(e \in ariaDisabled) /\ ~(e \in nativeDisabled)

\* this.triggerElements.filter(this.isFocusable)
Focusables == SelectSeq(TriggerElements, IsFocusable)

\* seq.indexOf(x), 0-based, -1 when absent
SeqIndexOf(seq, x) ==
    IF \E j \in 1 .. Len(seq) : seq[j] = x
    THEN (CHOOSE j \in 1 .. Len(seq) : seq[j] = x) - 1
    ELSE 0 - 1

\* The result of a remainder by zero; it indexes no element.
NaN == 0 - 2

\* newIndex with the arrow keys stopping at the ends instead of wrapping.
NewIndexNoWrap(key, currentIndex, length) ==
    CASE key = "End" -> length - 1
      [] key = "Home" -> 0
      [] key = "ArrowUp" -> currentIndex - 1
      [] key = "ArrowDown" -> currentIndex + 1

\* newIndex as the switch of handleTriggerKeyDown computes it.
NewIndex(key, currentIndex, length) ==
    CASE key = "End" -> length - 1
      [] key = "Home" -> 0
      [] key = "ArrowUp" ->
            IF length = 0 THEN NaN ELSE JSRem(currentIndex - 1 + length, length)
      [] key = "ArrowDown" ->
            IF length = 0 THEN NaN ELSE JSRem(currentIndex + 1, length)

\* focusables[j] is an element (not undefined)
Defined(seq, j) == j >= 0 /\ j < Len(seq)

(***************************************************************************)
(* The constructor's wiring.                                               *)
(***************************************************************************)
\* An attribute the element does not carry (null in the DOM).
Missing == "null"

\* The random suffix of every iteration coming out the same.
RandomIdCollides(i) == "r0"

\* Math.random().toString(36).slice(-8) in iteration i: the suffixes of
\* different iterations differ.
RandomId(i) == "r" \o ToString(i)

\* x ||= y with the fallback always assigned.
OrAssignAlways(x, y) == y

\* x ||= y
OrAssign(x, y) == IF x = "" THEN y ELSE x

\* The page before construction: members in tids / cids carry a trigger id /
\* content id of the author's, the contents in lids an aria-labelledby, and
\* the collections in empty match nothing under the instance's selectors.
Document(tids, cids, lids, empty) ==
    [triggerId |-> [i \in Members |->
                       IF i \in tids THEN "t" \o ToString(i) ELSE ""],
     contentId |-> [i \in Members |->
                       IF i \in cids THEN "c" \o ToString(i) ELSE ""],
     ariaControls |-> [i \in Members |-> Missing],
     labelledBy |-> [i \in Members |->
                       IF i \in lids THEN <<"h" \o ToString(i)>> ELSE <<>>],
     tabIndex |-> [i \in Members |-> 0],
     pointerEventsNone |-> [i \in Members |-> FALSE],
     role |-> [i \in Members |-> ""],
     listeners |-> {},
     initialized |-> FALSE,
     ariaLabel |-> [i \in Members |-> CollapsedLabel(i)],
     empty |-> empty]

\* initialize(), on page a with the triggers' aria-expanded values expanded:
\* the attributes and aria-expanded values it leaves.  A collection is
\* empty or holds all NumTriggers elements.
Initialize(a, expanded) ==
    IF a.empty # {} THEN [attrs |-> a, ariaExpanded |-> expanded]
    ELSE
      LET cid == [i \in Members |->
                     OrAssign(a.contentId[i], "accordion-content-" \o RandomId(i))]
          tid == [i \in Members |->
                     OrAssign(a.triggerId[i], "accordion-trigger-" \o RandomId(i))]
      IN  [attrs |->
             [a EXCEPT
                !.contentId = cid,
                !.ariaControls = cid,
                !.triggerId = tid,
                !.tabIndex = [i \in Members |-> IF IsFocusable(i) THEN 0 ELSE 0 - 1],
                !.pointerEventsNone =
                    [i \in Members |-> IF ~IsFocusable(i) THEN TRUE ELSE @[i]],
                !.listeners = @ \cup (Members \X {"click", "keydown", "beforematch"}),
                !.labelledBy = [i \in Members |-> Append(@[i], tid[i])],
                !.role = [i \in Members |-> "region"],
                !.initialized = TRUE],
           ariaExpanded |->
             [e \in Elems |->
                 IF e \in Members /\ expanded[e] \in {Missing, ""}
                 THEN "false" ELSE expanded[e]]]

(***************************************************************************)
(* Initial state: the instance as constructed and initialized over a       *)
(* document whose panels are all collapsed and hidden.                     *)
(***************************************************************************)
\* settings.animation.duration with the reduced-motion test left out.
ResolveDurationAsGiven(option, reduced) == option

\* settings.animation.duration as the constructor resolves it.
ResolveDuration(option, reduced) == IF reduced THEN 0 ELSE option

Init ==
    /\ hidden = [e \in Elems |-> TRUE]
    /\ overflow = [e \in Elems |-> FALSE]
    /\ animations = [s \in Slots |-> Null]
    /\ detached = {}
    /\ raf = <<>>
    /\ focus = Other
    /\ \E c \in Scenarios :
          /\ ariaDisabled = c[1]
          /\ nativeDisabled = c[2]
          /\ reducedMotion = c[3]
          /\ duration = ResolveDuration(c[4], c[3])
          /\ LET wired == Initialize(Document(c[5], c[5], {}, {}),
                                     [e \in Elems |->
                                         IF e \in Members THEN Missing ELSE "false"])
             IN  /\ attrs = wired.attrs
                 /\ ariaExpanded = wired.ariaExpanded
    /\ error = FALSE
    /\ cancelled = FALSE
    /\ lastOp = Op("init", NoElem, "")

(***************************************************************************)
(* Actions.                                                                *)
(***************************************************************************)
\* The state a handler leaves.  At most MaxPending frame callbacks are kept
\* pending.
Install(st) ==
    /\ Len(st.raf) <= MaxPending
    /\ ariaExpanded' = st.ariaExpanded
    /\ hidden' = st.hidden
    /\ overflow' = st.overflow
    /\ animations' = st.animations
    /\ detached' = st.detached
    /\ raf' = st.raf
    /\ cancelled' = st.cancelled

\* A call of the public open(trigger).
Open(e) ==
    /\ Install(OpenSt(State, duration, e))
    /\ error' = FALSE
    /\ lastOp' = Op("open", e, "")
    /\ UNCHANGED <<focus, cfgVars>>

\* A call of the public close(trigger).
Close(e) ==
    /\ Install(CloseSt(State, duration, e))
    /\ error' = FALSE
    /\ lastOp' = Op("close", e, "")
    /\ UNCHANGED <<focus, cfgVars>>

\* A click event on member trigger t.
Click(t) ==
    /\ Install(HandleTriggerClick(State, duration, t))
    /\ error' = FALSE
    /\ lastOp' = Op("click", t, "")
    /\ UNCHANGED <<focus, cfgVars>>

\* A beforematch event on content c.
Reveal(c) ==
    /\ Install(HandleContentBeforeMatch(State, duration, c))
    /\ error' = FALSE
    /\ lastOp' = Op("reveal", c, "")
    /\ UNCHANGED <<focus, cfgVars>>

\* A keydown event on a member trigger: handleTriggerKeyDown(event).
KeyDown(key) ==
    /\ lastOp' = Op("keydown", NoElem, key)
    /\ UNCHANGED cfgVars
    /\ IF key \notin {"Enter", " ", "End", "Home", "ArrowUp", "ArrowDown"}
          \/ focus = NonHTML
       THEN /\ error' = FALSE
            /\ cancelled' = FALSE
            /\ UNCHANGED <<domVars, focus>>
       ELSE IF key \in {"Enter", " "}
       THEN /\ Install(IF focus \in Members
                       THEN HandleTriggerClick(State, duration, focus)
                       ELSE State)
            /\ error' = FALSE
            /\ UNCHANGED focus
       ELSE LET focusables == Focusables
                currentIndex == SeqIndexOf(focusables, focus)
                newIndex == NewIndex(key, currentIndex, Len(focusables))
            IN  /\ UNCHANGED domVars
                /\ cancelled' = FALSE
                /\ IF Defined(focusables, newIndex)
                   THEN focus' = focusables[newIndex + 1] /\ error' = FALSE
                   ELSE focus' = focus /\ error' = TRUE

\* The user or a script moves the focus.  An element with the disabled
\* attribute takes no focus.
Focus(e) ==
    /\ e # focus
    /\ e \notin nativeDisabled
    /\ focus' = e
    /\ error' = FALSE
    /\ cancelled' = FALSE
    /\ lastOp' = Op("focus", e, "")
    /\ UNCHANGED <<domVars, cfgVars>>

\* The next frame: every pending requestAnimationFrame callback runs.
Paint ==
    /\ raf # <<>>
    /\ ariaExpanded' = RunCallbacks(ariaExpanded, raf)
    /\ raf' = <<>>
    /\ error' = FALSE
    /\ cancelled' = FALSE
    /\ lastOp' = Op("paint", NoElem, "")
    /\ UNCHANGED <<hidden, overflow, animations, detached, focus, cfgVars>>

\* The animations that may still report a finish event.
Running ==
    {animations[s] : s \in {x \in Slots : animations[x].state = "running"}}
        \cup detached

\* The finish event of running animation a.
Finish(a) ==
    /\ LET st == FinishListener(State, a)
       IN  /\ ariaExpanded' = st.ariaExpanded
           /\ hidden' = st.hidden
           /\ overflow' = st.overflow
           /\ animations' = st.animations
           /\ raf' = st.raf
    /\ detached' = detached \ {a}
    /\ error' = FALSE
    /\ cancelled' = FALSE
    /\ lastOp' = Op("finish", a.trigger, "")
    /\ UNCHANGED <<focus, cfgVars>>

\* The finish event of some running animation.
AnimationFinish == \E a \in Running : Finish(a)

\* The calls and events that toggle panels, with the frames and finish
\* events of the host.
PanelNext ==
    \/ \E e \in Elems : Open(e)
    \/ \E e \in Elems : Close(e)
    \/ \E t \in Members : Click(t)
    \/ \E c \in Members : Reveal(c)
    \/ Paint
    \/ AnimationFinish

Next ==
    \/ PanelNext
    \/ \E key \in Keys : KeyDown(key)
    \/ \E e \in Members \cup {Other, NonHTML} : Focus(e)

Spec == Init /\ [][Next]_vars

\* The instance driven through open/close/click/beforematch only.  A keydown
\* changes a panel only by Enter or Space, as the click it dispatches does.
PanelSpec == Init /\ [][PanelNext]_vars

\* The host runs every frame it owes, and a running animation finishes.
PanelFairSpec ==
    PanelSpec /\ WF_vars(Paint) /\ WF_vars(AnimationFinish)

(***************************************************************************)
(* Construction: new Accordion(root) over the pages an author may write,   *)
(* and the public methods called on an instance whose initialize()         *)
(* returned early.                                                         *)
(***************************************************************************)
\* The collections that match nothing on a page.
EmptyChoices ==
    { {}, {"trigger"}, {"section"}, {"header"}, {"content"},
      {"section", "header", "content"}, Collections }

\* The page before new Accordion(root) runs.
DocInit ==
    /\ hidden = [e \in Elems |-> TRUE]
    /\ overflow = [e \in Elems |-> FALSE]
    /\ animations = [s \in Slots |-> Null]
    /\ detached = {}
    /\ raf = <<>>
    /\ focus = Other
    /\ \E c \in Scenarios :
          /\ ariaDisabled = c[1]
          /\ nativeDisabled = c[2]
          /\ reducedMotion = c[3]
          /\ duration = ResolveDuration(c[4], c[3])
    /\ \E tids \in {{}, {0}, Members}, cids \in {{}, {1}, Members},
          lids \in {{}, {0}}, empty \in EmptyChoices :
          attrs = Document(tids, cids, lids, empty)
    /\ \E f \in [{0, 1} -> {Missing, "", "true", "false"}] :
          ariaExpanded = [e \in Elems |->
                             IF e \in {0, 1} THEN f[e]
                             ELSE IF e \in Members THEN Missing ELSE "false"]
    /\ error = FALSE
    /\ cancelled = FALSE
    /\ lastOp = Op("new", NoElem, "")

\* new Accordion(root): the constructor ends with this.initialize().
Construct ==
    /\ lastOp.op = "new"
    /\ LET wired == Initialize(attrs, ariaExpanded)
       IN  /\ attrs' = wired.attrs
           /\ ariaExpanded' = wired.ariaExpanded
    /\ error' = FALSE
    /\ cancelled' = FALSE
    /\ lastOp' = Op("init", NoElem, "")
    /\ UNCHANGED <<hidden, overflow, animations, detached, raf, focus,
                   ariaDisabled, nativeDisabled, duration, reducedMotion>>

\* open(t) / close(t) on an instance whose initialize() returned early.
\* With no trigger collected, includes() fails.  Otherwise toggle runs on the
\* unwired page: closest(section) is null when no section matches and
\* getComputedStyle throws; else the flip is scheduled, overflow is set, and
\* getElementById finds nothing for the missing aria-controls, so
\* content.removeAttribute throws.  A force-close of the group's expanded
\* member throws the same way, inside the outer toggle.
CallInert(t, open) ==
    /\ lastOp.op # "new"
    /\ attrs.empty # {}
    /\ Len(raf) < MaxPending
    /\ lastOp' = Op(IF open THEN "open" ELSE "close", t, "")
    /\ cancelled' = FALSE
    /\ UNCHANGED <<focus, cfgVars>>
    /\ IF "trigger" \in attrs.empty \/ NoOpGuard(State, t, open)
       THEN /\ error' = FALSE
            /\ UNCHANGED domVars
       ELSE LET name == DataAccordionName(t)
                current == QuerySelector(State, name)
                nested == name # "" /\ open /\ current \in Members \ {t}
                x == IF nested THEN current ELSE t
                xopen == IF nested THEN FALSE ELSE open
            IN  /\ error' = TRUE
                /\ IF "section" \in attrs.empty
                   THEN UNCHANGED domVars
                   ELSE /\ raf' = RequestAnimationFrame(raf, [trigger |-> x, open |-> xopen])
                        /\ overflow' = [overflow EXCEPT ![x] = TRUE]
                        /\ UNCHANGED <<ariaExpanded, hidden, animations, detached>>

ConstructNext ==
    \/ Construct
    \/ \E t \in Members, open \in BOOLEAN : CallInert(t, open)
    \/ Paint

ConstructSpec == DocInit /\ [][ConstructNext]_vars

(***************************************************************************)
(* Properties.                                                             *)
(***************************************************************************)
\* No frame callback is pending and no animation is running.
Settled == raf = <<>> /\ Running = {}

\* The number of running animations whose finish listener acts on index e.
LiveHandles(e) ==
    Cardinality({a \in detached : a.trigger = e})
        + (IF animations[IndexOf(e)].state = "running"
              /\ animations[IndexOf(e)].trigger = e THEN 1 ELSE 0)

\* The step taken was the call or event o on element e.
Called(o, e) == lastOp' = Op(o, e, "")

\* The step taken started a transition on element e: a toggle on e passed
\* its guard and scheduled the flip of e's aria-expanded.
Started(e) ==
    /\ Len(raf') > Len(raf)
    /\ \E j \in (Len(raf) + 1) .. Len(raf') : raf'[j].trigger = e

\* C1 (group exclusivity): in every settled state, no two distinct member
\* triggers that carry the same non-empty data-accordion-name both have
\* aria-expanded = "true".
C1_GroupExclusive ==
    Settled =>
        \A a, b \in Members :
            (a # b /\ DataAccordionName(a) # ""
                   /\ DataAccordionName(a) = DataAccordionName(b))
                => ~(ariaExpanded[a] = "true" /\ ariaExpanded[b] = "true")

\* C2 (idempotence): an open(t) that directly follows an open(t) starts no
\* transition (no animation start, no scheduled flip, no state change), and
\* a close(t) on a trigger whose aria-expanded is "false" changes nothing.
C2_Idempotent ==
    [][\A t \in Members :
          /\ (lastOp = Op("open", t, "") /\ Called("open", t))
                => UNCHANGED domVars
          /\ (Called("close", t) /\ ariaExpanded[t] = "false")
                => UNCHANGED domVars]_vars

\* C3 (animation mutual exclusion): every index has at most one running
\* animation, and it is the one its slot of this.animations holds; a step
\* that replaces a running animation in a slot has cancelled it; and a
\* finish event is only ever that of the animation its slot holds.
C3_OneLiveHandle ==
    /\ [](\A e \in Elems : LiveHandles(e) <= 1)
    /\ [](\A a \in Running : animations[IndexOf(a.trigger)] = a)
    /\ [][\A e \in Elems :
             (animations[IndexOf(e)].state = "running" /\ Started(e))
                => (cancelled' /\ detached' = {}
                       /\ animations'[IndexOf(e)].state = "running")]_vars
    /\ [][lastOp'.op = "finish"
             => (animations[IndexOf(lastOp'.arg)].state = "running"
                    /\ animations[IndexOf(lastOp'.arg)].trigger = lastOp'.arg
                    /\ animations'[IndexOf(lastOp'.arg)] = Null)]_vars

\* C3 witness: a toggle of member 0 has just cancelled the running animation
\* of index 0 and stored a new closing one in its place.
C3_Witness ==
    /\ cancelled
    /\ lastOp = Op("close", 0, "")
    /\ animations[0] = Animate(0, FALSE, duration)
    /\ LiveHandles(0) = 1

\* C4 (content visible during transitions): while index i has a running
\* animation its content is not hidden; the hidden attribute is set only by
\* the finish event of a closing animation of that index; and a step that
\* starts an animation on an index leaves its content not hidden.
C4_VisibleWhileAnimating ==
    /\ [](\A e \in Elems : LiveHandles(e) > 0 => ~hidden[e])
    /\ [][\A e \in Elems :
             /\ (~hidden[e] /\ hidden'[e])
                   => (lastOp' = Op("finish", e, "")
                          /\ animations[IndexOf(e)].state = "running"
                          /\ ~animations[IndexOf(e)].open)
             /\ Started(e)
                   => (~hidden'[e] /\ animations'[IndexOf(e)].state = "running")]_vars

\* C4 witness: content 1 was hidden by the finish of a closing animation or
\* from the start, an open(1) has just started an opening animation, and
\* the content is not hidden although aria-expanded is still "false".
C4_Witness ==
    /\ lastOp = Op("open", 1, "")
    /\ animations[1] = Animate(1, TRUE, duration)
    /\ ~hidden[1]
    /\ ariaExpanded[1] = "false"
    /\ hidden[0] /\ ariaExpanded[0] = "false" /\ animations[0] = Null
    /\ overflow[1]

\* C5 (foreign triggers): open(x) and close(x) with x no member of
\* triggerElements change no aria-expanded value, hidden state, style
\* override, pending frame callback or animation, and do not throw.
C5_ForeignNoOp ==
    [][\A x \in Elems \ Members :
          (Called("open", x) \/ Called("close", x))
             => (UNCHANGED domVars /\ ~error' /\ ~cancelled')]_vars

\* C5 witness: open(Foreign) was just called while member 0 is mid-transition
\* with a frame callback pending, and the foreign element is untouched.
C5_Witness ==
    /\ lastOp = Op("open", Foreign, "")
    /\ animations[0].state = "running"
    /\ raf # <<>>
    /\ ariaExpanded[Foreign] = "false"
    /\ hidden[Foreign]
    /\ animations[0 - 1] = Null

\* The step taken was a keydown of the given key.
Pressed(key) == lastOp' = Op("keydown", NoElem, key)

\* The members that carry aria-disabled="true" or the disabled attribute.
Disabled == ariaDisabled \cup nativeDisabled

\* The member triggers that are not disabled, in document order.
Enabled == SelectSeq(TriggerElements, LAMBDA e : e \notin Disabled)

\* The 0-based position of the focused element among the enabled triggers,
\* or -1.
FocusedIndex ==
    IF \E j \in 1 .. Len(Enabled) : Enabled[j] = focus
    THEN (CHOOSE j \in 1 .. Len(Enabled) : Enabled[j] = focus) - 1
    ELSE 0 - 1

\* C6 (keyboard wraparound): with N >= 1 focusable triggers and the focus
\* on focusable index k, ArrowDown moves the focus to index (k+1) mod N,
\* ArrowUp to (k-1) mod N, Home to index 0 and End to index N-1, and the
\* handler does not throw.
C6_Wraparound ==
    [][\A key \in NavKeys :
          (Pressed(key) /\ Len(Enabled) >= 1 /\ FocusedIndex >= 0)
             => LET N == Len(Enabled)
                    k == FocusedIndex
                    target == CASE key = "ArrowDown" -> (k + 1) % N
                                [] key = "ArrowUp" -> (k + N - 1) % N
                                [] key = "Home" -> 0
                                [] key = "End" -> N - 1
                IN  focus' = Enabled[target + 1] /\ ~error']_vars

\* C6 witness: every member is focusable (three at least) and ArrowUp has
\* just moved the focus to the last of them, which ArrowUp does from index 0
\* only.
C6_Witness ==
    /\ lastOp = Op("keydown", NoElem, "ArrowUp")
    /\ Len(Enabled) = NumTriggers
    /\ focus = Enabled[Len(Enabled)]
    /\ ~error

\* C7 (disabled triggers): a keydown never moves the focus to a member that
\* carries aria-disabled="true" or the disabled attribute, whatever has the
\* focus; and open(t) / close(t) on such a member t whose aria-expanded
\* differs from the request start the transition as for any member.
C7_DisabledSkippedButToggleable ==
    [][/\ (lastOp'.op = "keydown" /\ focus' # focus) => focus' \notin Disabled
       /\ \A t \in Disabled :
             /\ (Called("open", t) /\ ariaExpanded[t] = "false")
                   => (Started(t) /\ ~hidden'[t] /\ overflow'[t]
                          /\ animations'[t] = Animate(t, TRUE, duration))
             /\ (Called("close", t) /\ ariaExpanded[t] = "true")
                   => (Started(t) /\ ~hidden'[t] /\ overflow'[t]
                          /\ animations'[t] = Animate(t, FALSE, duration))]_vars

\* C7 witness: members 0 and 1 are disabled; Home has just moved the focus
\* past them to member 2, while member 0 has been opened and member 1 is
\* mid-transition.
C7_Witness ==
    /\ lastOp = Op("keydown", NoElem, "Home")
    /\ 0 \in ariaDisabled /\ 1 \in nativeDisabled
    /\ focus = 2
    /\ ariaExpanded[0] = "true"
    /\ animations[1].state = "running"

\* C8 (no focusable trigger): when every member trigger is disabled, a
\* Home, End, ArrowUp or ArrowDown keydown does not throw, moves no focus
\* and changes no panel state.
C8_EmptyFocusablesNoOp ==
    [][\A key \in NavKeys :
          (Pressed(key) /\ Len(Enabled) = 0)
             => (~error' /\ focus' = focus /\ UNCHANGED domVars)]_vars

\* C9 (reduced motion): when the reduced-motion preference was active at
\* construction, every animation a toggle starts has duration zero.
C9_ReducedMotionZero ==
    reducedMotion =>
        /\ \A a \in Running : a.duration = 0
        /\ \A s \in Slots : animations[s] # Null => animations[s].duration = 0

\* C9 witness: under reduced motion, open(1) has just force-closed member 0
\* of its group and opened member 1, both with duration zero.
C9_Witness ==
    /\ reducedMotion
    /\ lastOp = Op("open", 1, "")
    /\ animations[0] = Animate(0, FALSE, 0)
    /\ animations[1] = Animate(1, TRUE, 0)

\* C10 (deferred match): a beforematch event on content c whose trigger is
\* not expanded starts an opening animation of duration zero on index c and
\* schedules the flip to "true", and from there the trigger eventually is
\* expanded with the content not hidden; a beforematch event on content
\* whose trigger has aria-expanded = "true" changes nothing.
C10_DeferredMatch ==
    /\ [][\A c \in Members :
             Called("reveal", c)
                => IF ariaExpanded[c] = "false"
                   THEN /\ Started(c)
                        /\ raf'[Len(raf')] = [trigger |-> c, open |-> TRUE]
                        /\ animations'[c] = Animate(c, TRUE, 0)
                   ELSE UNCHANGED domVars]_vars
    /\ \A c \in Members :
          (lastOp = Op("reveal", c, "") /\ ariaExpanded[c] = "false")
             ~> (ariaExpanded[c] = "true" /\ ~hidden[c])

\* C10 witness: with a non-zero configured duration, a beforematch event on
\* content 2 has just started an opening animation of duration zero.
C10_Witness ==
    /\ lastOp = Op("reveal", 2, "")
    /\ duration > 0
    /\ ariaExpanded[2] = "false"
    /\ animations[2] = Animate(2, TRUE, 0)
    /\ ~hidden[2]

\* C11 (index alignment): in every state the i-th trigger's aria-controls is
\* the i-th content's id and resolves to the i-th content; a step that
\* starts a transition for trigger i unhides content i and puts the
\* running animation in slot i; and content j and slot j change only in a
\* step that starts a transition for trigger j or finishes one of its.
C11_IndexAligned ==
    /\ [](\A i \in Members :
             /\ attrs.contentId[i] # ""
             /\ attrs.ariaControls[i] = attrs.contentId[i]
             /\ ContentOf(i) = i)
    /\ [][\A i \in Members :
             /\ Started(i)
                   => (~hidden'[i] /\ animations'[i].trigger = i
                          /\ animations'[i].state = "running")
             /\ (~Started(i) /\ lastOp' # Op("finish", i, ""))
                   => (hidden'[i] = hidden[i] /\ animations'[i] = animations[i])]_vars

\* C11 witness: open(1) on a page without ids of the author's has just
\* started the transition of pair 1, while pair 0 is untouched.
C11_Witness ==
    /\ lastOp = Op("open", 1, "")
    /\ attrs.ariaControls[1] = "accordion-content-r1"
    /\ animations[1] = Animate(1, TRUE, duration) /\ ~hidden[1]
    /\ animations[0] = Null /\ hidden[0]

\* C12 (inert instance): on an instance constructed with an empty element
\* collection no step writes an attribute of a trigger or content, attaches
\* a listener or marks the root, and no step fails.
C12_InertWhenEmpty ==
    [][attrs.empty # {}
          => (attrs' = attrs /\ ariaExpanded' = ariaExpanded
                 /\ hidden' = hidden /\ ~error')]_vars

C14_MatchPropagates ==
    [][\A c \in Members : \A sib \in Members \ {c} :
          (Called("reveal", c) /\ Started(sib))
             => animations'[sib] = Animate(sib, FALSE, 0)]_vars

\* C15 (label overrides): in every settled state, a trigger that declares
\* distinct expanded/collapsed label overrides carries as accessible label
\* the override of its aria-expanded value.
C15_LabelFollowsState ==
    Settled =>
       \A t \in Members :
          ExpandedLabel(t) # CollapsedLabel(t)
             => attrs.ariaLabel[t] = IF ariaExpanded[t] = "true"
                                     THEN ExpandedLabel(t)
                                     ELSE CollapsedLabel(t)

\* C16 (layout restoration): the finish event of a transition on index e
\* clears slot e and removes the overflow override, after an opening as
\* after a closing; and whenever index e has no running animation its
\* section carries no overflow: clip.
C16_LayoutRestored ==
    /\ [](\A e \in Elems : LiveHandles(e) = 0 => ~overflow[e])
    /\ [][\A e \in Elems :
             lastOp' = Op("finish", e, "")
                => (animations'[IndexOf(e)] = Null /\ ~overflow'[e])]_vars

\* C16 witness: member 0's opening animation has just finished while member
\* 1 is still mid-transition; section 0 carries no override, section 1 does.
C16_Witness ==
    /\ lastOp = Op("finish", 0, "")
    /\ ~hidden[0]
    /\ animations[0] = Null /\ ~overflow[0]
    /\ animations[1].state = "running" /\ overflow[1]

\* The pending frame callbacks that flip element e.
PendingFor(q, e) == SelectSeq(q, LAMBDA cb : cb.trigger = e)

\* C17 (deferred flip): aria-expanded changes in no open/close/click/
\* beforematch step, only in a frame and only to the value of a callback
\* that was pending for that trigger; a step that schedules a flip has
\* started the trigger's animation; and a call whose request equals the
\* current aria-expanded schedules nothing.
C17_DeferredFlip ==
    [][/\ (ariaExpanded' # ariaExpanded) => lastOp'.op = "paint"
       /\ \A e \in Elems :
             /\ (ariaExpanded'[e] # ariaExpanded[e])
                   => \E j \in 1 .. Len(raf) :
                         /\ raf[j].trigger = e
                         /\ BoolString(raf[j].open) = ariaExpanded'[e]
             /\ Started(e)
                   => (animations'[IndexOf(e)].state = "running"
                          /\ ariaExpanded'[e] = ariaExpanded[e])
       /\ \A t \in Members :
             ((Called("open", t) /\ ariaExpanded[t] = "true")
                 \/ (Called("close", t) /\ ariaExpanded[t] = "false"))
                => raf' = raf]_vars

\* C17 witness: the frame has just flipped member 2 to "true" while the
\* animation its open(2) started is still running.
C17_Witness ==
    /\ lastOp = Op("paint", NoElem, "")
    /\ ariaExpanded[2] = "true"
    /\ animations[2] = Animate(2, TRUE, duration)
    /\ raf = <<>>

\* C18 (stale guard): while the flip of an open(t) is still pending
\* (aria-expanded is "false"), close(t) changes nothing; and the frame that
\* runs the pending flip leaves t with aria-expanded = "true" and its
\* content not hidden.
C18_StaleGuard ==
    [][\A t \in Members :
          /\ (Called("close", t) /\ PendingFor(raf, t) # <<>>
                 /\ ariaExpanded[t] = "false")
                => UNCHANGED domVars
          /\ (lastOp'.op = "paint" /\ PendingFor(raf, t) # <<>>
                 /\ ariaExpanded[t] = "false")
                => (ariaExpanded'[t] = "true" /\ ~hidden'[t])]_vars

\* C18 witness: close(0) was just called after open(0) in the same frame,
\* and the opening transition is still the one in flight.
C18_Witness ==
    /\ lastOp = Op("close", 0, "")
    /\ ariaExpanded[0] = "false"
    /\ raf = <<[trigger |-> 0, open |-> TRUE]>>
    /\ animations[0] = Animate(0, TRUE, duration)

\* The target of the last toggle on member t that passed the guard, as the
\* state keeps it: that of the animation in slot t or, once it has finished,
\* whether it left the content visible.
LastTarget(t) ==
    IF animations[t] # Null THEN animations[t].open ELSE ~hidden[t]

\* C19 (settled consistency): in every settled state the content of each
\* member is hidden exactly when its aria-expanded is "false"; every pending
\* flip of a member carries the target of the last toggle on it that passed
\* the guard, and with no flip pending its aria-expanded is that target.
C19_SettledConsistent ==
    /\ Settled =>
          \A t \in Members : hidden[t] <=> (ariaExpanded[t] = "false")
    /\ \A t \in Members :
          /\ \A j \in 1 .. Len(raf) :
                raf[j].trigger = t => raf[j].open = LastTarget(t)
          /\ PendingFor(raf, t) = <<>>
                => ariaExpanded[t] = BoolString(LastTarget(t))

\* C19 witness: member 0 was opened and closed again and everything has
\* settled, while member 2 has settled open.
C19_Witness ==
    /\ Settled
    /\ lastOp = Op("finish", 0, "")
    /\ ariaExpanded[0] = "false" /\ hidden[0]
    /\ ariaExpanded[2] = "true" /\ ~hidden[2]

\* Nothing of element j changed in the step.
Untouched(j) ==
    /\ ariaExpanded'[j] = ariaExpanded[j]
    /\ hidden'[j] = hidden[j]
    /\ overflow'[j] = overflow[j]
    /\ animations'[IndexOf(j)] = animations[IndexOf(j)]
    /\ PendingFor(raf', j) = PendingFor(raf, j)

\* C20 (frame of a toggle): a click/open/close on member i changes nothing
\* of an element j # i unless i carries a group key and j is an expanded
\* member of that group, and it changes at most one such j.
C20_ToggleFrame ==
    [][\A i \in Members :
          (Called("open", i) \/ Called("close", i) \/ Called("click", i))
             => /\ \A j \in Elems \ {i} :
                      (DataAccordionName(i) = ""
                          \/ DataAccordionName(j) # DataAccordionName(i)
                          \/ j \notin Members
                          \/ ariaExpanded[j] # "true")
                         => Untouched(j)
                /\ Cardinality({j \in Elems \ {i} : ~Untouched(j)}) <= 1]_vars

\* C20 witness: open(1) has just force-closed member 0 of its group while
\* the ungrouped member 2 stays expanded and mid-transition, untouched.
C20_Witness ==
    /\ lastOp = Op("open", 1, "")
    /\ animations[0] = Animate(0, FALSE, duration)
    /\ animations[1] = Animate(1, TRUE, duration)
    /\ ariaExpanded[2] = "true"
    /\ animations[2] = Animate(2, FALSE, duration)

====
